---- MODULE Spec2Model ----
(***************************************************************************)
(* Pharmacy inventory and sales tracker: the catalog/sales store held by   *)
(* App (src/src/App.tsx), the sale form of SalesTable                      *)
(* (src/unnamed/part_000), the add/edit form and the displayed list of     *)
(* InventoryTable (src/src/components/InventoryTable.tsx), the near-expiry *)
(* list of Charts (src/unnamed/part_001) and the domain predicates of      *)
(* utils (src/src/App.tsx, lines 189-244).                                 *)
(*                                                                         *)
(* Conventions of the model:                                               *)
(*  - a step is one event of the running application: a click on a         *)
(*    navigation button, a change of a field, a submitted form; the        *)
(*    renders the event causes are part of the step;                       *)
(*  - a number is a JavaScript Number, an IEEE-754 double with NaN and     *)
(*    the infinities; a form's numeric text is the sequence of its         *)
(*    UTF-16 code units, parsed by parseInt / parseFloat as JavaScript     *)
(*    parses it;                                                           *)
(*  - Array.prototype.sort is the stable sort when the comparator is       *)
(*    consistent on the list, and any reordering of the list otherwise     *)
(*    (implementation-defined in ECMAScript);                              *)
(*  - alert() blocks its handler: the state a handler has queued is        *)
(*    rendered when the dialog is closed, at the clock of that instant;    *)
(*  - metrics is the DashboardMetrics App computed at its last render;     *)
(*  - the state of a component that is not mounted has the component's     *)
(*    initial values; filteredMedicines and availableMedicines are the     *)
(*    values memoised by InventoryTable and SalesTable, empty while the    *)
(*    component is not mounted;                                            *)
(*  - the dialog of the inventory form is modelled (isModalOpen,           *)
(*    editingMedicine): while it is open the table behind it still takes   *)
(*    its events; what is typed in the form is an input of the step that   *)
(*    submits it.  The dialog of the sale form is not a variable: it is    *)
(*    closed exactly when the sale form is empty, and opening it changes   *)
(*    nothing else;                                                        *)
(*  - nearExpiryProducts is the value memoised by Charts, empty while      *)
(*    Charts is not mounted;                                               *)
(*  - mounting holds from the first render of App until the effect it    *)
(*    runs once mounted has run; the dialog of that effect blocks the      *)
(*    page, so no event is handled before it is closed;                    *)
(*  - ./data is not among the sources: each specification mounts App on    *)
(*    a catalog of its own and draws what the user types from its own      *)
(*    small sets;                                                          *)
(*  - an instant is a number of milliseconds; an expiryDate is a day       *)
(*    number d, and new Date(expiryDate) is the instant d * DayMs;         *)
(*  - an id is the pair <<Date.now(), random suffix>> that generateId      *)
(*    concatenates; the empty string '' is EmptyId.                        *)
(***************************************************************************)
EXTENDS Integers, Sequences, FiniteSets, TLC

VARIABLES medicines, sales, formData, lastAlert, now, handled, metrics,
          currentView, searchTerm, sortField, sortDirection,
          isModalOpen, editingMedicine,
          filteredMedicines, availableMedicines, nearExpiryProducts,
          showAlert, mounting

vars == <<medicines, sales, formData, lastAlert, now, handled, metrics,
          currentView, searchTerm, sortField, sortDirection,
          isModalOpen, editingMedicine,
          filteredMedicines, availableMedicines, nearExpiryProducts,
          showAlert, mounting>>

----------------------------------------------------------------------------
(* Bounds of the model *)

MaxMeds == 3
MaxSales == 2
MaxTicks == 1
MaxRand == 2
MaxHandled == 7
MaxHandledEmptyStore == 9
MaxHandledRounding == 7

(* Program constants *)

DayMs == 86400000
LowStockThreshold == 5

StartMs == 2 * DayMs
TickMs == DayMs \div 2

----------------------------------------------------------------------------
(* Alerts shown by the handlers *)

NoAlert == "none"
AlertSelectMedicine == "Please select a medicine"
AlertInsufficient == "Insufficient stock. Available"
AlertInvalidQuantity == "Quantity must be greater than 0"
AlertStoreRejected == "Error: Insufficient stock"
AlertSaleCompleted == "Sale completed successfully!"

----------------------------------------------------------------------------
(* JavaScript Numbers: IEEE-754 doubles held exactly as sign * m * 2^e, where m is
   an odd natural.  NaN and the two
   infinities are values of their own; the sign of zero is not kept. *)

MantissaBits == 53
MaxExponent == 1023
MinExponent == -1074

(* Naturals of any size: sequences of limbs in base 2^15, least significant first,
   no zero limb at the high end *)
LimbBits == 15
Base == 2^LimbBits

RECURSIVE LimbsOf(_)
LimbsOf(n) == IF n = 0 THEN <<>> ELSE <<n % Base>> \o LimbsOf(n \div Base)

RECURSIVE NatOf(_)
NatOf(a) == IF a = <<>> THEN 0 ELSE Head(a) + Base * NatOf(Tail(a))

Trim(a) ==
    LET used == {i \in 1..Len(a) : a[i] # 0}
    IN IF used = {} THEN <<>>
       ELSE SubSeq(a, 1, CHOOSE i \in used : \A j \in used : j <= i)

LimbAt(a, i) == IF i <= Len(a) THEN a[i] ELSE 0

(* a + b; the carry into a limb is looked up rather than rippled *)
AddNat(a, b) ==
    LET n == IF Len(a) > Len(b) THEN Len(a) ELSE Len(b)
        sum(i) == LimbAt(a, i) + LimbAt(b, i)
        carry(i) == IF \E j \in 1..(i - 1) :
                          sum(j) >= Base /\ \A h \in (j + 1)..(i - 1) : sum(h) = Base - 1
                    THEN 1 ELSE 0
    IN Trim([i \in 1..(n + 1) |-> (sum(i) + carry(i)) % Base])

(* a - b for a >= b *)
SubNat(a, b) ==
    LET borrow(i) == IF \E j \in 1..(i - 1) :
                           a[j] < LimbAt(b, j)
                           /\ \A h \in (j + 1)..(i - 1) : a[h] = LimbAt(b, h)
                     THEN 1 ELSE 0
    IN Trim([i \in 1..Len(a) |-> (a[i] - LimbAt(b, i) - borrow(i)) % Base])

(* -1, 0 or 1 as a < b, a = b or a > b *)
CompareNat(a, b) ==
    IF Len(a) # Len(b) THEN (IF Len(a) > Len(b) THEN 1 ELSE -1)
    ELSE LET differ == {i \in 1..Len(a) : a[i] # b[i]}
             top == CHOOSE i \in differ : \A j \in differ : j <= i
         IN IF differ = {} THEN 0 ELSE IF a[top] > b[top] THEN 1 ELSE -1

(* a * k for a limb k *)
TimesLimb(a, k) ==
    AddNat([i \in 1..Len(a) |-> (a[i] * k) % Base],
           [i \in 1..(Len(a) + 1) |-> IF i = 1 THEN 0 ELSE (a[i - 1] * k) \div Base])

RECURSIVE TimesNat(_, _)
TimesNat(a, b) ==
    IF a = <<>> \/ b = <<>> THEN <<>>
    ELSE LET rest == TimesNat(a, Tail(b))
         IN IF rest = <<>> THEN TimesLimb(a, Head(b))
            ELSE AddNat(TimesLimb(a, Head(b)), <<0>> \o rest)

ShiftLeft(a, k) ==
    IF a = <<>> THEN <<>>
    ELSE [i \in 1..(k \div LimbBits) |-> 0] \o TimesLimb(a, 2^(k % LimbBits))

(* a divided by 2^k, rounded down *)
ShiftRight(a, k) ==
    LET whole == SubSeq(a, k \div LimbBits + 1, Len(a))
        r == k % LimbBits
    IN Trim([i \in 1..Len(whole) |->
               whole[i] \div 2^r
               + (IF i < Len(whole) THEN (whole[i + 1] % 2^r) * 2^(LimbBits - r) ELSE 0)])

(* number of bits of a limb *)
RECURSIVE LimbLength(_)
LimbLength(x) == IF x = 0 THEN 0 ELSE 1 + LimbLength(x \div 2)

BitLength(a) == IF a = <<>> THEN 0 ELSE LimbBits * (Len(a) - 1) + LimbLength(a[Len(a)])

(* the bit of weight 2^(i - 1) *)
BitAt(a, i) ==
    IF i > LimbBits * Len(a) THEN 0
    ELSE (a[(i - 1) \div LimbBits + 1] \div 2^((i - 1) % LimbBits)) % 2

(* number of zero bits below the lowest set bit of a non-zero natural *)
RECURSIVE LowZeros(_)
LowZeros(a) ==
    IF a = <<>> THEN 0
    ELSE IF Head(a) = 0 THEN LimbBits + LowZeros(Tail(a))
    ELSE IF Head(a) % 2 = 1 THEN 0
    ELSE 1 + LowZeros(<<Head(a) \div 2>>)

(* the largest limb q with d * q <= t, found bit by bit *)
RECURSIVE QuotientLimb(_, _, _, _)
QuotientLimb(t, d, bit, acc) ==
    IF bit < 0 THEN acc
    ELSE IF CompareNat(TimesLimb(d, acc + 2^bit), t) <= 0
    THEN QuotientLimb(t, d, bit - 1, acc + 2^bit)
    ELSE QuotientLimb(t, d, bit - 1, acc)

(* quotient and remainder of n by d > 0 *)
RECURSIVE DivNat(_, _)
DivNat(n, d) ==
    IF Len(n) < Len(d) THEN [q |-> <<>>, r |-> n]
    ELSE LET high == DivNat(Tail(n), d)
             t == Trim(<<Head(n)>> \o high.r)
             q == QuotientLimb(t, d, LimbBits - 1, 0)
         IN IF high.r = <<>> /\ Head(n) = 0 THEN [q |-> Trim(<<0>> \o high.q), r |-> <<>>]
            ELSE [q |-> Trim(<<q>> \o high.q), r |-> SubNat(t, TimesLimb(d, q))]

NaN == [k |-> "NaN", s |-> 1, m |-> <<>>, e |-> 0]
Infinity(sign) == [k |-> "Infinity", s |-> sign, m |-> <<>>, e |-> 0]
Zero == [k |-> "number", s |-> 1, m |-> <<>>, e |-> 0]

isNaN(x) == x.k = "NaN"
isFinite(x) == x.k = "number"

(* sign * bits * 2^e, exactly representable, in its canonical form *)
Canonical(sign, bits, e) ==
    LET t == Trim(bits)
        z == LowZeros(t)
    IN IF t = <<>> THEN Zero
       ELSE IF e + BitLength(t) - 1 > MaxExponent THEN Infinity(sign)
       ELSE [k |-> "number", s |-> sign, m |-> ShiftRight(t, z), e |-> e + z]

(* sign * bits * 2^e rounded to the nearest double, ties to even *)
RoundDouble(sign, bits, e) ==
    LET t == Trim(bits)
        L == BitLength(t)
        qe == IF e + L - MantissaBits > MinExponent THEN e + L - MantissaBits
              ELSE MinExponent
        drop == qe - e
    IN IF drop <= 0 THEN Canonical(sign, t, e)
       ELSE LET kept == ShiftRight(t, drop)
                guard == BitAt(t, drop)
                sticky == ShiftLeft(ShiftRight(t, drop - 1), drop - 1) # t
                odd == BitAt(kept, 1) = 1
                up == guard = 1 /\ (sticky \/ odd)
            IN Canonical(sign, IF up THEN AddNat(kept, <<1>>) ELSE kept, qe)

(* the number i * 2^e for an integer i *)
Scaled(i, e) == Canonical(IF i < 0 THEN -1 ELSE 1, LimbsOf(IF i < 0 THEN -i ELSE i), e)

NumberOf(i) == Scaled(i, 0)

Negate(x) == IF x.k = "NaN" \/ x = Zero THEN x ELSE [x EXCEPT !.s = -x.s]

Signum(x) == IF x = Zero THEN 0 ELSE x.s

(* order of the magnitudes of two finite non-zero numbers *)
CompareMagnitude(x, y) ==
    IF x.e + BitLength(x.m) # y.e + BitLength(y.m)
    THEN (IF x.e + BitLength(x.m) > y.e + BitLength(y.m) THEN 1 ELSE -1)
    ELSE LET e == IF x.e < y.e THEN x.e ELSE y.e
         IN CompareNat(ShiftLeft(x.m, x.e - e), ShiftLeft(y.m, y.e - e))

(* order of two numbers, neither of them NaN *)
CompareNumbers(x, y) ==
    IF Signum(x) # Signum(y) THEN (IF Signum(x) > Signum(y) THEN 1 ELSE -1)
    ELSE IF Signum(x) = 0 THEN 0
    ELSE IF x.k = "Infinity" /\ y.k = "Infinity" THEN 0
    ELSE IF x.k = "Infinity" THEN x.s
    ELSE IF y.k = "Infinity" THEN -x.s
    ELSE x.s * CompareMagnitude(x, y)

(* the relational operators: every comparison with NaN is false *)
Less(x, y) == ~isNaN(x) /\ ~isNaN(y) /\ CompareNumbers(x, y) < 0
LessEq(x, y) == ~isNaN(x) /\ ~isNaN(y) /\ CompareNumbers(x, y) <= 0
Greater(x, y) == Less(y, x)

Plus(x, y) ==
    IF isNaN(x) \/ isNaN(y) THEN NaN
    ELSE IF x.k = "Infinity" /\ y.k = "Infinity" THEN (IF x.s = y.s THEN x ELSE NaN)
    ELSE IF x.k = "Infinity" THEN x
    ELSE IF y.k = "Infinity" THEN y
    ELSE IF x = Zero THEN y
    ELSE IF y = Zero THEN x
    ELSE LET e == IF x.e < y.e THEN x.e ELSE y.e
             a == ShiftLeft(x.m, x.e - e)
             b == ShiftLeft(y.m, y.e - e)
             c == CompareNat(a, b)
         IN IF x.s = y.s THEN RoundDouble(x.s, AddNat(a, b), e)
            ELSE IF c = 0 THEN Zero
            ELSE IF c > 0 THEN RoundDouble(x.s, SubNat(a, b), e)
            ELSE RoundDouble(y.s, SubNat(b, a), e)

Minus(x, y) == Plus(x, Negate(y))

Times(x, y) ==
    IF isNaN(x) \/ isNaN(y) THEN NaN
    ELSE IF x.k = "Infinity" \/ y.k = "Infinity"
    THEN (IF x = Zero \/ y = Zero THEN NaN ELSE Infinity(x.s * y.s))
    ELSE IF x = Zero \/ y = Zero THEN Zero
    ELSE RoundDouble(x.s * y.s, TimesNat(x.m, y.m), x.e + y.e)

----------------------------------------------------------------------------
(* Parsing of form text: a text is the sequence of its UTF-16 code units *)

(* "0" .. "9" *)
Digits == 48..57

(* the digits, "a" .. "f" and "A" .. "F" *)
HexDigits == Digits \cup (97..102) \cup (65..70)

(* StrWhiteSpaceChar: TAB, LF, VT, FF, CR, SP, NBSP, the other space separators, LS,
   PS and ZWNBSP *)
WhiteSpace ==
    (9..13) \cup {32, 160, 5760} \cup (8192..8202) \cup {8232, 8233, 8239, 8287, 12288, 65279}

DigitVal(c) == IF c \in Digits THEN c - 48 ELSE IF c \in 97..102 THEN c - 87 ELSE c - 55

(* the length of the longest prefix of s made of the given characters *)
PrefixLen(s, chars) ==
    LET others == {i \in 1..Len(s) : s[i] \notin chars}
    IN IF others = {} THEN Len(s)
       ELSE (CHOOSE i \in others : \A j \in others : i <= j) - 1

DigitPrefixLen(s) == PrefixLen(s, Digits)

Drop(s, n) == SubSeq(s, n + 1, Len(s))

TrimStart(s) == Drop(s, PrefixLen(s, WhiteSpace))

StartsWith(s, prefix) == Len(s) >= Len(prefix) /\ SubSeq(s, 1, Len(prefix)) = prefix

(* "-" is 45, "+" is 43 *)
HasSign(s) == s # <<>> /\ Head(s) \in {45, 43}
Unsigned(s) == IF HasSign(s) THEN Tail(s) ELSE s
SignOf(s) == IF s # <<>> /\ Head(s) = 45 THEN -1 ELSE 1

(* radix^n, by squaring *)
RECURSIVE PowerOf(_, _)
PowerOf(radix, n) ==
    LET half == PowerOf(radix, n \div 2)
    IN IF n = 0 THEN <<1>>
       ELSE IF n % 2 = 0 THEN TimesNat(half, half)
       ELSE TimesLimb(TimesNat(half, half), radix)

PowerOfTen(n) == PowerOf(10, n)

(* the natural written by a sequence of digits in the given radix: the value of the
   first half times radix^(length of the second half), plus the value of the second *)
RECURSIVE DigitsValue(_, _)
DigitsValue(s, radix) ==
    LET half == Len(s) \div 2
        high == DigitsValue(SubSeq(s, 1, half), radix)
        low == DigitsValue(SubSeq(s, half + 1, Len(s)), radix)
    IN IF s = <<>> THEN <<>>
       ELSE IF Len(s) = 1 THEN LimbsOf(DigitVal(s[1]))
       ELSE AddNat(TimesNat(high, PowerOf(radix, Len(s) - half)), low)

(* the integer written by the digits of a decimal exponent, or bound when it is larger *)
ExponentValue(s, bound) ==
    LET value == DigitsValue(s, 10)
    IN IF CompareNat(value, LimbsOf(bound)) > 0 THEN bound ELSE NatOf(value)

(* sign * digits * 10^exp10 as the nearest double *)
DecimalToNumber(sign, digits, exp10) ==
    LET significant == Drop(digits, PrefixLen(digits, {48}))
        magnitude == Len(significant) + exp10
        n == DigitsValue(significant, 10)
    IN IF significant = <<>> THEN Zero
       ELSE IF magnitude > 310 THEN Infinity(sign)
       ELSE IF magnitude < -330 THEN Zero
       ELSE IF exp10 >= 0 THEN RoundDouble(sign, TimesNat(n, PowerOfTen(exp10)), 0)
       ELSE LET p == PowerOfTen(-exp10)
                shift == IF BitLength(p) - BitLength(n) + MantissaBits + 3 > 0
                         THEN BitLength(p) - BitLength(n) + MantissaBits + 3 ELSE 0
                d == DivNat(ShiftLeft(n, shift), p)
                inexact == IF d.r = <<>> THEN 0 ELSE 1
            IN RoundDouble(sign, AddNat(ShiftLeft(d.q, 1), LimbsOf(inexact)), -shift - 1)

(* parseInt(text): leading white space, optional sign, "0x" or "0X" and hexadecimal
   digits or else the longest prefix of decimal digits; NaN when there is no digit *)
parseInt(text) ==
    LET t == TrimStart(text)
        body == Unsigned(t)
        hex == StartsWith(body, <<48, 120>>) \/ StartsWith(body, <<48, 88>>)
        digits == IF hex THEN SubSeq(body, 3, 2 + PrefixLen(Drop(body, 2), HexDigits))
                  ELSE SubSeq(body, 1, DigitPrefixLen(body))
    IN IF digits = <<>> THEN NaN
       ELSE RoundDouble(SignOf(t), DigitsValue(digits, IF hex THEN 16 ELSE 10), 0)

(* parseFloat(text): leading white space, optional sign, then "Infinity" or the longest
   prefix that is a decimal literal (digits, "." and digits, "e" or "E" and an
   exponent); NaN otherwise.  An exponent larger than the text is long by 400 or more
   gives Infinity or 0 whatever its value, so it is taken up to that bound *)
parseFloat(text) ==
    LET t == TrimStart(text)
        body == Unsigned(t)
        n == DigitPrefixLen(body)
        afterInt == Drop(body, n)
        hasPoint == afterInt # <<>> /\ Head(afterInt) = 46
        f == IF hasPoint THEN DigitPrefixLen(Tail(afterInt)) ELSE 0
        afterFrac == IF hasPoint THEN Drop(afterInt, 1 + f) ELSE afterInt
        hasE == afterFrac # <<>> /\ Head(afterFrac) \in {101, 69}
        expText == IF hasE THEN Tail(afterFrac) ELSE <<>>
        x == DigitPrefixLen(Unsigned(expText))
        exp10 == IF x = 0 THEN 0
                 ELSE SignOf(expText)
                        * ExponentValue(SubSeq(Unsigned(expText), 1, x), Len(text) + 400)
    IN IF StartsWith(body, <<73, 110, 102, 105, 110, 105, 116, 121>>)
       THEN Infinity(SignOf(t))
       ELSE IF n = 0 /\ f = 0 THEN NaN
       ELSE DecimalToNumber(SignOf(t),
                            SubSeq(body, 1, n) \o SubSeq(afterInt, 2, 1 + f), exp10 - f)


----------------------------------------------------------------------------
(* utils *)

(* An instant is a count of milliseconds; it is held as whole days and the
   milliseconds left over, the count being days * DayMs + rest with 0 <= rest < DayMs *)
Instant(ms) == [days |-> ms \div DayMs, rest |-> ms % DayMs]

(* new Date(expiryDate).getTime() *)
DateOf(expiryDate) == [days |-> expiryDate, rest |-> 0]

(* a < b, for two instants *)
Earlier(a, b) == a.days < b.days \/ (a.days = b.days /\ a.rest < b.rest)

(* a - b, as whole days and the milliseconds left over *)
Elapsed(a, b) ==
    IF a.rest >= b.rest
    THEN [days |-> a.days - b.days, rest |-> a.rest - b.rest]
    ELSE [days |-> a.days - b.days - 1, rest |-> a.rest - b.rest + DayMs]

isExpired(expiryDate, today) == Earlier(DateOf(expiryDate), Instant(today))

isLowStock(quantity) == Less(quantity, NumberOf(LowStockThreshold))

getMedicineStatus_StockFirst(medicine, today) ==
    IF isLowStock(medicine.quantity) THEN "Low Stock"
    ELSE IF isExpired(medicine.expiryDate, today) THEN "Expired"
    ELSE "In Stock"

getMedicineStatus(medicine, today) ==
    IF isExpired(medicine.expiryDate, today) THEN "Expired"
    ELSE IF isLowStock(medicine.quantity) THEN "Low Stock"
    ELSE "In Stock"

generateId(dateNow, random) == <<dateNow, random>>

(* Math.ceil of a duration divided by 1000 * 60 * 60 * 24 *)
CeilDays(duration) == IF duration.rest > 0 THEN duration.days + 1 ELSE duration.days

(* The value of daysThreshold when isNearExpiry is called with one argument *)
DefaultDaysThreshold_Widened == 90 + 1

DefaultDaysThreshold == 90

isNearExpiry(expiryDate, daysThreshold, today) ==
    LET diffTime == Elapsed(DateOf(expiryDate), Instant(today))
        diffDays == CeilDays(diffTime)
    IN diffDays > 0 /\ diffDays <= daysThreshold

(* medicines.reduce((sum, med) => sum + med.price * med.quantity, 0): the terms are
   added from the first to the last *)
RECURSIVE InventoryValue(_)
InventoryValue(meds) ==
    IF meds = <<>> THEN Zero
    ELSE Plus(InventoryValue(SubSeq(meds, 1, Len(meds) - 1)),
              Times(meds[Len(meds)].price, meds[Len(meds)].quantity))

(* sales.reduce((sum, sale) => sum + sale.totalAmount, 0) *)
RECURSIVE SalesTotal(_)
SalesTotal(history) ==
    IF history = <<>> THEN Zero
    ELSE Plus(SalesTotal(SubSeq(history, 1, Len(history) - 1)),
              history[Len(history)].totalAmount)

calculateMetrics_LowStockCountsExpired(meds, history, today) ==
    [totalInventoryValue |-> InventoryValue(meds),
     totalSales |-> SalesTotal(history),
     lowStockItems |-> Len(SelectSeq(meds, LAMBDA med : isLowStock(med.quantity))),
     expiredItems |-> Len(SelectSeq(meds, LAMBDA med : isExpired(med.expiryDate, today)))]

calculateMetrics_SkipsExpired(meds, history, today) ==
    [totalInventoryValue |->
        InventoryValue(SelectSeq(meds, LAMBDA med : ~isExpired(med.expiryDate, today))),
     totalSales |-> SalesTotal(history),
     lowStockItems |->
        Len(SelectSeq(meds, LAMBDA med :
                isLowStock(med.quantity) /\ ~isExpired(med.expiryDate, today))),
     expiredItems |-> Len(SelectSeq(meds, LAMBDA med : isExpired(med.expiryDate, today)))]

calculateMetrics(meds, history, today) ==
    [totalInventoryValue |-> InventoryValue(meds),
     totalSales |-> SalesTotal(history),
     lowStockItems |->
        Len(SelectSeq(meds, LAMBDA med :
                isLowStock(med.quantity) /\ ~isExpired(med.expiryDate, today))),
     expiredItems |-> Len(SelectSeq(meds, LAMBDA med : isExpired(med.expiryDate, today)))]


----------------------------------------------------------------------------
(* The data shipped with the application (./data), which the sources do not hold, and
   the empty forms *)

EmptyId == <<0, 0>>

initialMedicines ==
    << [id |-> <<0, 1>>, name |-> "Paracetamol", supplier |-> "Acme", category |-> "Pain",
        price |-> NumberOf(10), quantity |-> NumberOf(3), expiryDate |-> 4, plu |-> "P1"],
       [id |-> <<0, 2>>, name |-> "Amoxil", supplier |-> "Beta", category |-> "Antibiotic",
        price |-> Scaled(5, -1), quantity |-> NumberOf(2), expiryDate |-> 1, plu |-> "P2"] >>

(* A shop that starts with nothing *)
noMedicines == <<>>

(* A catalog with prices 0.1, 0.2 and 0.3, whose products do not add up exactly, with
   expiry dates 90 days ahead, 91 days ahead and in the past, entered in the reverse of
   the order of the names *)
roundingMedicines ==
    << [id |-> <<0, 1>>, name |-> "Zinc", supplier |-> "Gamma", category |-> "Mineral",
        price |-> parseFloat(<<48, 46, 49>>), quantity |-> NumberOf(5),
        expiryDate |-> 92, plu |-> "P1"],
       [id |-> <<0, 2>>, name |-> "Brufen", supplier |-> "Beta", category |-> "Fever",
        price |-> parseFloat(<<48, 46, 50>>), quantity |-> NumberOf(1),
        expiryDate |-> 93, plu |-> "P2"],
       [id |-> <<0, 3>>, name |-> "Amoxil", supplier |-> "Acme", category |-> "Antibiotic",
        price |-> parseFloat(<<48, 46, 51>>), quantity |-> NumberOf(2),
        expiryDate |-> 1, plu |-> "P3"] >>

(* editingMedicine while no medicine is being edited (null) *)
NoMedicine ==
    [id |-> EmptyId, name |-> "", supplier |-> "", category |-> "",
     price |-> Zero, quantity |-> Zero, expiryDate |-> 0, plu |-> ""]

EmptySaleForm == [customerName |-> "", medicineId |-> EmptyId, quantity |-> <<>>]

(* What the user may do *)

Views == {"dashboard", "inventory", "sales", "expired", "metrics"}

CustomerNames == {"Ali"}

(* "", "-1", "0", "1", "3", "4" *)
SaleQuantityTexts == { <<>>, <<45, 49>>, <<48>>, <<49>>, <<51>>, <<52>> }

(* price "25e-1" and quantity "5", "-1.50" and "-2", "-2.5" and "5" *)
InventoryForms ==
    { [name |-> "Brufen", supplier |-> "Gamma", category |-> "Fever",
       price |-> <<50, 53, 101, 45, 49>>, quantity |-> <<53>>,
       expiryDate |-> 2, plu |-> "P3"],
      [name |-> "Zinc", supplier |-> "Beta", category |-> "Mineral",
       price |-> <<45, 49, 46, 53, 48>>, quantity |-> <<45, 50>>,
       expiryDate |-> 3, plu |-> "P4"],
      [name |-> "Calpol", supplier |-> "Acme", category |-> "Pain",
       price |-> <<45, 50, 46, 53>>, quantity |-> <<53>>,
       expiryDate |-> 4, plu |-> "P5"] }

RandomSuffixes == 1..MaxRand

SearchTerms == {"", "ga"}

SortFields == {"name", "supplier", "category", "price", "quantity", "expiryDate", "plu"}

----------------------------------------------------------------------------
(* Array helpers *)

FindIndex_FirstWhenMissing(meds, id) ==
    IF \E i \in 1..Len(meds) : meds[i].id = id
    THEN CHOOSE i \in 1..Len(meds) :
            meds[i].id = id /\ \A j \in 1..(i - 1) : meds[j].id # id
    ELSE IF meds # <<>> THEN 1 ELSE 0

(* Array.prototype.find: index of the first medicine with this id, 0 when there is none *)
FindIndex(meds, id) ==
    IF \E i \in 1..Len(meds) : meds[i].id = id
    THEN CHOOSE i \in 1..Len(meds) :
            meds[i].id = id /\ \A j \in 1..(i - 1) : meds[j].id # id
    ELSE 0

RECURSIVE FilterOutId(_, _)
FilterOutId(meds, id) ==
    IF meds = <<>> THEN <<>>
    ELSE IF Head(meds).id # id THEN <<Head(meds)>> \o FilterOutId(Tail(meds), id)
    ELSE FilterOutId(Tail(meds), id)

----------------------------------------------------------------------------
(* InventoryTable.handleSubmit: the medicineData built from the form *)

InventoryMedicineData(form) ==
    [name |-> form.name, supplier |-> form.supplier,
     price |-> parseFloat(form.price), quantity |-> parseInt(form.quantity),
     expiryDate |-> form.expiryDate, plu |-> form.plu, category |-> form.category]

WithId(medicineData, id) ==
    [id |-> id, name |-> medicineData.name, supplier |-> medicineData.supplier,
     category |-> medicineData.category, price |-> medicineData.price,
     quantity |-> medicineData.quantity, expiryDate |-> medicineData.expiryDate,
     plu |-> medicineData.plu]

(* App.handleAddMedicine *)
AddedMedicines(meds, medicineData, id) == Append(meds, WithId(medicineData, id))

(* App.handleUpdateMedicine *)
UpdatedMedicines(meds, id, medicineData) ==
    [i \in 1..Len(meds) |-> IF meds[i].id = id THEN WithId(medicineData, id) ELSE meds[i]]

(* App.handleDeleteMedicine *)
DeletedMedicines(meds, id) == FilterOutId(meds, id)

(* The ids in use in a catalog *)
IdsOf(meds) == {meds[i].id : i \in 1..Len(meds)}

----------------------------------------------------------------------------
(* SalesTable.handleSubmit and App.handleSell *)

(* The medicines offered by the select of the sale form, as computed from a catalog
   at an instant *)
SellableMedicines(meds, today) ==
    SelectSeq(meds, LAMBDA med :
        ~isExpired(med.expiryDate, today) /\ Greater(med.quantity, Zero))

StockExceeded_OrEqual(quantity, medicine) == LessEq(medicine.quantity, quantity)

StockExceeded(quantity, medicine) == Greater(quantity, medicine.quantity)

QuantityInvalid(quantity) == LessEq(quantity, Zero)

SaleData_UnitTotal(form, medicine, quantity) ==
    [customerName |-> form.customerName, medicineId |-> medicine.id,
     medicineName |-> medicine.name, quantity |-> quantity,
     price |-> medicine.price, totalAmount |-> medicine.price]

SaleData(form, medicine, quantity) ==
    [customerName |-> form.customerName, medicineId |-> medicine.id,
     medicineName |-> medicine.name, quantity |-> quantity,
     price |-> medicine.price, totalAmount |-> Times(medicine.price, quantity)]

StoreRejects_WholeStock(meds, saleData) ==
    LET i == FindIndex(meds, saleData.medicineId)
    IN i = 0 \/ LessEq(meds[i].quantity, saleData.quantity)

StoreRejects(meds, saleData) ==
    LET i == FindIndex(meds, saleData.medicineId)
    IN i = 0 \/ Less(meds[i].quantity, saleData.quantity)

NewSale(saleData, id, dateTime) ==
    [id |-> id, customerName |-> saleData.customerName,
     medicineId |-> saleData.medicineId, medicineName |-> saleData.medicineName,
     quantity |-> saleData.quantity, price |-> saleData.price,
     totalAmount |-> saleData.totalAmount, dateTime |-> dateTime]

SalesAfterSell_AtTail(history, newSale) == Append(history, newSale)

SalesAfterSell(history, newSale) == <<newSale>> \o history

MedicinesAfterSell_NoDecrement(meds, saleData) == meds

MedicinesAfterSell_AllRows(meds, saleData) ==
    [i \in 1..Len(meds) |->
        [meds[i] EXCEPT !.quantity = Minus(meds[i].quantity, saleData.quantity)]]

MedicinesAfterSell(meds, saleData) ==
    [i \in 1..Len(meds) |->
        IF meds[i].id = saleData.medicineId
        THEN [meds[i] EXCEPT !.quantity = Minus(meds[i].quantity, saleData.quantity)]
        ELSE meds[i]]

----------------------------------------------------------------------------
(* The displayed list of InventoryTable *)

(* The strings of the model in the order of String.prototype.localeCompare *)
Collation ==
    <<"Acme", "Amoxil", "Antibiotic", "Beta", "Brufen", "Calpol", "Fever", "Gamma",
      "Mineral", "P1", "P2", "P3", "P4", "P5", "Pain", "Paracetamol", "Zinc">>

Sign(x) == IF x < 0 THEN -1 ELSE IF x > 0 THEN 1 ELSE 0

localeCompare(a, b) ==
    LET rank(t) == CHOOSE k \in 1..Len(Collation) : Collation[k] = t
    IN Sign(rank(a) - rank(b))

(* text.toLowerCase().includes(term.toLowerCase()), on the strings of the model: "ga"
   occurs in "Gamma" only *)
Includes(text, term) == term = "" \/ (term = "ga" /\ text = "Gamma")

(* The fields of a Medicine that hold a string (types.ts), expiryDate apart *)
StringFields == {"name", "supplier", "category", "plu"}

(* The sign of what the comparator given to sort returns: two strings are compared by
   localeCompare (expiryDate is a date string, a day number here), two numbers by
   their difference; sort takes a comparator result of NaN for 0 *)
Compare(a, b, field, direction) ==
    LET multiplier == IF direction = "asc" THEN 1 ELSE -1
        difference == Times(Minus(a[field], b[field]), NumberOf(multiplier))
    IN IF field \in StringFields THEN localeCompare(a[field], b[field]) * multiplier
       ELSE IF field = "expiryDate"
       THEN Sign(a.expiryDate - b.expiryDate) * multiplier
       ELSE IF isNaN(difference) THEN 0
       ELSE Signum(difference)

(* The results v[i, j] of a comparator on n elements order them in equivalence
   classes.  Transitivity is asked of different elements; for the others it follows
   from the first two lines *)
ConsistentOrder(v, n) ==
    /\ \A i \in 1..n : v[i, i] = 0
    /\ \A i, j \in 1..n : i < j => v[i, j] = -v[j, i]
    /\ \A i, j, k \in 1..n :
          (i # j /\ j # k /\ i # k) =>
             /\ (v[i, j] = 0 /\ v[j, k] = 0) => v[i, k] = 0
             /\ (v[i, j] < 0 /\ v[j, k] < 0) => v[i, k] < 0
             /\ (v[i, j] = 0 /\ v[j, k] < 0) => v[i, k] < 0
             /\ (v[i, j] < 0 /\ v[j, k] = 0) => v[i, k] < 0

(* The bijections of 1..n *)
Bijections(n) == {p \in [1..n -> 1..n] : \A i, j \in 1..n : p[i] = p[j] => i = j}

(* The sequences with the elements of seq in any order *)
Reorderings(seq) == {[i \in 1..Len(seq) |-> seq[p[i]]] : p \in Bijections(Len(seq))}

(* The place the stable sort gives element i: after the elements the comparator puts
   before it and after the equal ones that stood before it *)
StablePlace(i, v, n) ==
    1 + Cardinality({j \in 1..n : v[j, i] < 0 \/ (v[j, i] = 0 /\ j < i)})

(* Array.prototype.sort on the results v[i, j] of its comparator: the orders it can
   leave the array in.  When the comparator is consistent on the elements the sort is
   stable, which leaves one order; when it is not (a NaN among three or more numbers)
   the order is implementation-defined *)
SortedWith(seq, v) ==
    LET n == Len(seq)
    IN IF v \in [(1..n) \X (1..n) -> {-1, 0, 1}] /\ ConsistentOrder(v, n)
       THEN {[k \in 1..n |-> seq[CHOOSE i \in 1..n : StablePlace(i, v, n) = k]]}
       ELSE Reorderings(seq)

(* The sort of filteredMedicines, with the comparator of the clicked header *)
SortOutcomes(seq, field, direction) ==
    SortedWith(seq, [i \in 1..Len(seq), j \in 1..Len(seq) |->
                        Compare(seq[i], seq[j], field, direction)])

(* Charts.nearExpiryProducts: the medicines in stock that expire within the default
   threshold, by expiry date, ten at most.  The comparator subtracts the instants of
   two dates *)
NearExpiryProducts(meds, today) ==
    LET found == SelectSeq(meds, LAMBDA med :
                     /\ isNearExpiry(med.expiryDate, DefaultDaysThreshold, today)
                     /\ Greater(med.quantity, Zero))
        n == Len(found)
        byDate == [i \in 1..n, j \in 1..n |->
                      Sign(found[i].expiryDate - found[j].expiryDate)]
        sorted == CHOOSE s \in SortedWith(found, byDate) : TRUE
    IN SubSeq(sorted, 1, IF n < 10 THEN n ELSE 10)

MatchesSearch(med, term) ==
    \/ Includes(med.name, term)
    \/ Includes(med.supplier, term)
    \/ Includes(med.plu, term)
    \/ Includes(med.category, term)

(* filter creates a new array, sort sorts the array it is called on *)
SortsCatalogInPlace(term, showExpiredOnly) == ~showExpiredOnly /\ term = ""

(* The lists the memo function of filteredMedicines can return *)
DisplayedMedicines(meds, term, field, direction, showExpiredOnly, today) ==
    LET expiredOnly == IF showExpiredOnly
                       THEN SelectSeq(meds, LAMBDA med : isExpired(med.expiryDate, today))
                       ELSE meds
        found == IF term # ""
                 THEN SelectSeq(expiredOnly, LAMBDA med : MatchesSearch(med, term))
                 ELSE expiredOnly
    IN SortOutcomes(found, field, direction)

----------------------------------------------------------------------------
(* State machine *)

InventoryViews == {"inventory", "expired"}

ChartViews == {"dashboard", "metrics"}

(* The state of App and of its children once App is mounted with this catalog *)
Mounted(catalog) ==
    /\ medicines = catalog
    /\ sales = <<>>
    /\ formData = EmptySaleForm
    /\ lastAlert = NoAlert
    /\ now = StartMs
    /\ handled = 0
    /\ metrics = calculateMetrics(catalog, <<>>, StartMs)
    /\ currentView = "dashboard"
    /\ searchTerm = ""
    /\ sortField = "name"
    /\ sortDirection = "asc"
    /\ isModalOpen = FALSE
    /\ editingMedicine = NoMedicine
    /\ filteredMedicines = <<>>
    /\ availableMedicines = <<>>
    /\ nearExpiryProducts = NearExpiryProducts(catalog, StartMs)
    /\ showAlert = TRUE
    /\ mounting = TRUE

(* What InventoryTable.handleSubmit computes from each form the model types *)
MedicineDataOf == [form \in InventoryForms |-> InventoryMedicineData(form)]

(* One more event handler runs to completion; none is called before the effect of
   the mount has run, and none sets showAlert *)
Handle ==
    /\ ~mounting
    /\ handled' = handled + 1
    /\ UNCHANGED <<showAlert, mounting>>

(* App renders after a change of its state: the metrics are computed from the catalog
   and the history of the new state, before any child renders *)
Render(meds, history) == metrics' = calculateMetrics(meds, history, now')

(* InventoryTable renders with a changed dependency of its memo: the displayed list is
   computed from the catalog it is given, which is the array App holds *)
RenderInventoryTable(meds, term, field, direction) ==
    LET showExpiredOnly == currentView' = "expired"
    IN \E displayed \in DisplayedMedicines(meds, term, field, direction,
                                           showExpiredOnly, now') :
          /\ filteredMedicines' = displayed
          /\ medicines' = IF SortsCatalogInPlace(term, showExpiredOnly)
                          THEN displayed ELSE meds

(* A click on the navigation button of another view: the view shown is unmounted with
   its state, the new one is mounted in its initial state *)
setCurrentView(view) ==
    /\ view # currentView
    /\ Handle
    /\ lastAlert' = NoAlert
    /\ UNCHANGED <<sales, now>>
    /\ currentView' = view
    /\ Render(medicines, sales)
    /\ formData' = EmptySaleForm
    /\ searchTerm' = ""
    /\ sortField' = "name"
    /\ sortDirection' = "asc"
    /\ isModalOpen' = FALSE
    /\ editingMedicine' = NoMedicine
    /\ IF view \in InventoryViews
       THEN RenderInventoryTable(medicines, "", "name", "asc")
       ELSE medicines' = medicines /\ filteredMedicines' = <<>>
    /\ availableMedicines' =
          IF view = "sales" THEN SellableMedicines(medicines, now) ELSE <<>>
    /\ nearExpiryProducts' =
          IF view \in ChartViews THEN NearExpiryProducts(medicines, now) ELSE <<>>

(* The search box of InventoryTable *)
setSearchTerm(term) ==
    /\ currentView \in InventoryViews
    /\ term # searchTerm
    /\ Handle
    /\ lastAlert' = NoAlert
    /\ searchTerm' = term
    /\ UNCHANGED <<sales, formData, now, metrics, currentView, sortField, sortDirection,
                   isModalOpen, editingMedicine, availableMedicines, nearExpiryProducts>>
    /\ RenderInventoryTable(medicines, term, sortField, sortDirection)

(* A click on a column header of InventoryTable *)
handleSort(field) ==
    /\ currentView \in InventoryViews
    /\ Handle
    /\ lastAlert' = NoAlert
    /\ sortField' = field
    /\ sortDirection' = IF sortField = field
                        THEN (IF sortDirection = "asc" THEN "desc" ELSE "asc")
                        ELSE "asc"
    /\ UNCHANGED <<sales, formData, now, metrics, currentView, searchTerm,
                   isModalOpen, editingMedicine, availableMedicines, nearExpiryProducts>>
    /\ RenderInventoryTable(medicines, searchTerm, field, sortDirection')

(* The Add Medicine button of InventoryTable *)
openAddModal ==
    /\ currentView \in InventoryViews
    /\ ~(isModalOpen /\ editingMedicine = NoMedicine)
    /\ Handle
    /\ editingMedicine' = NoMedicine
    /\ isModalOpen' = TRUE
    /\ lastAlert' = NoAlert
    /\ UNCHANGED <<medicines, sales, formData, now, metrics, currentView, searchTerm,
                   sortField, sortDirection, filteredMedicines, availableMedicines,
                   nearExpiryProducts>>

(* The edit button of a displayed row *)
openEditModal(medicine) ==
    /\ currentView \in InventoryViews
    /\ ~(isModalOpen /\ editingMedicine = medicine)
    /\ Handle
    /\ editingMedicine' = medicine
    /\ isModalOpen' = TRUE
    /\ lastAlert' = NoAlert
    /\ UNCHANGED <<medicines, sales, formData, now, metrics, currentView, searchTerm,
                   sortField, sortDirection, filteredMedicines, availableMedicines,
                   nearExpiryProducts>>

(* The Cancel button of the inventory form *)
closeModal ==
    /\ currentView \in InventoryViews
    /\ isModalOpen
    /\ Handle
    /\ isModalOpen' = FALSE
    /\ lastAlert' = NoAlert
    /\ UNCHANGED <<medicines, sales, formData, now, metrics, currentView, searchTerm,
                   sortField, sortDirection, editingMedicine, filteredMedicines,
                   availableMedicines, nearExpiryProducts>>

(* A change of the catalog made from InventoryTable: App renders, then the table *)
SetMedicines(meds) ==
    /\ lastAlert' = NoAlert
    /\ UNCHANGED <<sales, formData, now, currentView, searchTerm, sortField,
                   sortDirection, availableMedicines, nearExpiryProducts>>
    /\ Render(meds, sales)
    /\ RenderInventoryTable(meds, searchTerm, sortField, sortDirection)

(* App.handleAddMedicine *)
handleAddMedicine(form, random) ==
    /\ Len(medicines) < MaxMeds
    /\ SetMedicines(AddedMedicines(medicines, MedicineDataOf[form],
                                   generateId(now, random)))

(* App.handleUpdateMedicine *)
handleUpdateMedicine(id, form) ==
    SetMedicines(UpdatedMedicines(medicines, id, MedicineDataOf[form]))

(* InventoryTable.handleSubmit: the form is submitted with what has been typed in it *)
InventoryTable_handleSubmit(form, random) ==
    /\ currentView \in InventoryViews
    /\ isModalOpen
    /\ Handle
    /\ IF editingMedicine # NoMedicine
       THEN handleUpdateMedicine(editingMedicine.id, form)
       ELSE handleAddMedicine(form, random)
    /\ isModalOpen' = FALSE
    /\ UNCHANGED editingMedicine

(* The delete button of a displayed row, confirmed *)
handleDeleteMedicine(id) ==
    /\ currentView \in InventoryViews
    /\ Handle
    /\ UNCHANGED <<isModalOpen, editingMedicine>>
    /\ SetMedicines(DeletedMedicines(medicines, id))

(* The onChange handlers of the sale form *)
ChangeSaleForm(field, value) ==
    /\ currentView = "sales"
    /\ formData[field] # value
    /\ Handle
    /\ formData' = [formData EXCEPT ![field] = value]
    /\ lastAlert' = NoAlert
    /\ UNCHANGED <<medicines, sales, now, metrics, currentView, searchTerm, sortField,
                   sortDirection, isModalOpen, editingMedicine, filteredMedicines,
                   availableMedicines, nearExpiryProducts>>

ChangeCustomerName(name) == ChangeSaleForm("customerName", name)

ChangeMedicineId(id) == ChangeSaleForm("medicineId", id)

ChangeQuantity(text) == ChangeSaleForm("quantity", text)

(* The Cancel button of the sale form *)
Cancel ==
    /\ currentView = "sales"
    /\ formData # EmptySaleForm
    /\ Handle
    /\ formData' = EmptySaleForm
    /\ lastAlert' = NoAlert
    /\ UNCHANGED <<medicines, sales, now, metrics, currentView, searchTerm, sortField,
                   sortDirection, isModalOpen, editingMedicine, filteredMedicines,
                   availableMedicines, nearExpiryProducts>>

(* The instants at which a dialog opened now can be closed *)
ClosingTimes == {t \in {now, now + TickMs} : t <= StartMs + MaxTicks * TickMs}

(* App.handleSell, called by SalesTable.handleSubmit through onSell.  The Sale is made
   and the two updates are queued at the instant of the submission; the handler then
   waits in alert() until the user closes the dialog, and only after it has returned
   does App render, then SalesTable with the new catalog, at the instant of closing *)
handleSell(saleData, random) ==
    IF StoreRejects(medicines, saleData)
    THEN /\ lastAlert' = AlertStoreRejected
         /\ UNCHANGED <<medicines, sales, now, metrics, availableMedicines>>
    ELSE /\ Len(sales) < MaxSales
         /\ sales' = SalesAfterSell(sales, NewSale(saleData, generateId(now, random), now))
         /\ medicines' = MedicinesAfterSell(medicines, saleData)
         /\ lastAlert' = AlertSaleCompleted
         /\ now' \in ClosingTimes
         /\ Render(medicines', sales')
         /\ availableMedicines' = SellableMedicines(medicines', now')

(* The checks of SalesTable.handleSubmit, in their order: the alert that refuses the
   form, NoAlert when the form passes them all *)
SubmitAlert(meds, form) ==
    LET i == FindIndex(meds, form.medicineId)
        quantity == parseInt(form.quantity)
    IN IF i = 0 THEN AlertSelectMedicine
       ELSE IF StockExceeded(quantity, meds[i]) THEN AlertInsufficient
       ELSE IF QuantityInvalid(quantity) THEN AlertInvalidQuantity
       ELSE NoAlert

(* SalesTable.handleSubmit *)
handleSubmit(random) ==
    /\ currentView = "sales"
    /\ Handle
    /\ UNCHANGED <<currentView, searchTerm, sortField, sortDirection, isModalOpen,
                   editingMedicine, filteredMedicines, nearExpiryProducts>>
    /\ LET refusal == SubmitAlert(medicines, formData)
           medicine == medicines[FindIndex(medicines, formData.medicineId)]
       IN IF refusal # NoAlert
          THEN /\ lastAlert' = refusal
               /\ UNCHANGED <<medicines, sales, formData, now, metrics, availableMedicines>>
          ELSE /\ handleSell(SaleData(formData, medicine, parseInt(formData.quantity)),
                             random)
               /\ formData' = EmptySaleForm

(* The wall clock advances between two events *)
Tick ==
    /\ now < StartMs + MaxTicks * TickMs
    /\ now' = now + TickMs
    /\ UNCHANGED <<medicines, sales, formData, lastAlert, handled, metrics, currentView,
                   searchTerm, sortField, sortDirection, isModalOpen, editingMedicine,
                   filteredMedicines, availableMedicines, nearExpiryProducts,
                   showAlert, mounting>>

(* The lists App computes at each render for the effect of the mount *)
LowStockItems(meds, today) ==
    SelectSeq(meds, LAMBDA med :
        isLowStock(med.quantity) /\ ~isExpired(med.expiryDate, today))

ExpiredItems(meds, today) ==
    SelectSeq(meds, LAMBDA med : isExpired(med.expiryDate, today))

(* The effect App runs once, after its first render, with the lists of that render.
   When one of them is not empty it shows the alerts dialog and waits in alert() until
   the user closes it, then sets showAlert to false: App renders again at the instant
   of closing and computes the metrics anew; the catalog is the same array, so the
   memo of Charts keeps its list *)
MountEffect ==
    /\ mounting
    /\ mounting' = FALSE
    /\ UNCHANGED <<medicines, sales, formData, lastAlert, handled, currentView,
                   searchTerm, sortField, sortDirection, isModalOpen, editingMedicine,
                   filteredMedicines, availableMedicines, nearExpiryProducts>>
    /\ IF showAlert /\ ( \/ Len(LowStockItems(medicines, StartMs)) > 0
                         \/ Len(ExpiredItems(medicines, StartMs)) > 0 )
       THEN /\ showAlert' = FALSE
            /\ now' \in ClosingTimes
            /\ Render(medicines, sales)
       ELSE UNCHANGED <<showAlert, now, metrics>>

(* The events of the application, for a user who has a number of events to spend and
   types the texts of these sets *)
Events(user) ==
    \/ \E view \in Views : handled < user.events /\ setCurrentView(view)
    \/ \E term \in user.terms : handled < user.events /\ setSearchTerm(term)
    \/ \E field \in user.fields : handled < user.events /\ handleSort(field)
    \/ handled < user.events /\ openAddModal
    \/ \E i \in 1..Len(filteredMedicines) :
          handled < user.events /\ openEditModal(filteredMedicines[i])
    \/ handled < user.events /\ closeModal
    \/ \E form \in user.forms, r \in RandomSuffixes :
          handled < user.events /\ InventoryTable_handleSubmit(form, r)
    \/ \E id \in IdsOf(filteredMedicines) :
          handled < user.events /\ handleDeleteMedicine(id)
    \/ \E name \in CustomerNames : handled < user.events /\ ChangeCustomerName(name)
    \/ \E id \in IdsOf(availableMedicines) \cup {EmptyId} :
          handled < user.events /\ ChangeMedicineId(id)
    \/ \E text \in user.texts : handled < user.events /\ ChangeQuantity(text)
    \/ \E r \in RandomSuffixes : handled < user.events /\ handleSubmit(r)
    \/ handled < user.events /\ Cancel
    \/ MountEffect
    \/ Tick

Init == Mounted(initialMedicines)

Next == Events([events |-> MaxHandled, terms |-> SearchTerms, fields |-> SortFields,
                forms |-> InventoryForms, texts |-> SaleQuantityTexts])

Spec == Init /\ [][Next]_vars

(* A shop that starts with an empty catalog and enters medicines of its own *)
InitEmptyStore == Mounted(noMedicines)

NextEmptyStore ==
    Events([events |-> MaxHandledEmptyStore, terms |-> SearchTerms,
            fields |-> {"quantity"},
            forms |-> {form \in InventoryForms : form.name \in {"Zinc", "Calpol"}},
            texts |-> { <<45, 49>>, <<48>>, <<49>> }])

SpecEmptyStore == InitEmptyStore /\ [][NextEmptyStore]_vars

(* A shop whose prices are not sums of powers of two *)
InitRounding == Mounted(roundingMedicines)

NextRounding ==
    Events([events |-> MaxHandledRounding, terms |-> SearchTerms,
            fields |-> {"name", "quantity"},
            forms |-> {form \in InventoryForms : form.name = "Brufen"},
            texts |-> { <<>>, <<49>> }])

SpecRounding == InitRounding /\ [][NextRounding]_vars
----------------------------------------------------------------------------
(* Properties *)

(* The integer a finite number with an integer value stands for *)
IntOf(x) == x.s * NatOf(x.m) * 2^x.e

(* An amount of money in hundredths *)
Hundredths(x) == IntOf(Times(x, NumberOf(100)))

(* The input was well typed (spec section 7: numbers are numbers): no number held by
   the catalog or the history is NaN or infinite *)
Finite(meds, history) ==
    /\ \A i \in 1..Len(meds) : isFinite(meds[i].price) /\ isFinite(meds[i].quantity)
    /\ \A k \in 1..Len(history) :
          isFinite(history[k].quantity) /\ isFinite(history[k].totalAmount)

(* A step in which SalesTable.handleSubmit ran: it is the only handler that alerts *)
SubmitStep == handled' # handled /\ lastAlert' # NoAlert

(* The first medicine of the catalog whose id is the one in the sale form, before the
   step (0 when there is none) *)
Matching == {i \in 1..Len(medicines) : medicines[i].id = formData.medicineId}

Resolved == IF Matching = {} THEN 0 ELSE CHOOSE i \in Matching : \A j \in Matching : i <= j

(* The ids a sale request can carry: the empty id, those of the shipped medicines and
   those generateId can make *)
KnownIds ==
    {EmptyId} \cup {<<0, k>> : k \in 1..3}
              \cup {generateId(StartMs + k * TickMs, r) : k \in 0..MaxTicks, r \in RandomSuffixes}

(* The thresholds isNearExpiry is asked about *)
Thresholds == {1, 2, 89, 90, 91}

(* C1: after a successful sale of quantity q against medicine m of prior quantity Q,
   m's quantity is Q - q, the history has grown by exactly one Sale, and that Sale has
   totalAmount = m.price * q with medicineName and price copied from m.  The
   difference and the product are those of JavaScript numbers; when q and Q are
   numbers they are also those of the integers. *)
C1_SaleCommit ==
    [][ (SubmitStep /\ lastAlert' = AlertSaleCompleted) =>
            LET i == Resolved
                q == parseInt(formData.quantity)
            IN /\ i # 0
               /\ Len(medicines') = Len(medicines)
               /\ medicines'[i].id = medicines[i].id
               /\ medicines'[i].quantity = Minus(medicines[i].quantity, q)
               /\ Len(sales') = Len(sales) + 1
               /\ Tail(sales') = sales
               /\ Head(sales').medicineId = medicines[i].id
               /\ Head(sales').quantity = q
               /\ Head(sales').totalAmount = Times(medicines[i].price, q)
               /\ Head(sales').medicineName = medicines[i].name
               /\ Head(sales').price = medicines[i].price
               /\ (isFinite(q) /\ isFinite(medicines[i].quantity)) =>
                     /\ IntOf(medicines'[i].quantity)
                           = IntOf(medicines[i].quantity) - IntOf(q)
                     /\ Hundredths(Head(sales').totalAmount)
                           = Hundredths(medicines[i].price) * IntOf(q) ]_vars

(* Two sales of one unit of the same medicine, the second on a history that held the
   first: price 10.00, quantity 3 before, 1 after, each Sale of 10.00 *)
C1_Witness ==
    /\ lastAlert = AlertSaleCompleted
    /\ Len(sales) = 2
    /\ \A k \in 1..2 :
          /\ sales[k].medicineId = <<0, 1>>
          /\ sales[k].quantity = NumberOf(1)
          /\ sales[k].price = NumberOf(10)
          /\ sales[k].totalAmount = NumberOf(10)
    /\ \E i \in 1..Len(medicines) :
          medicines[i].id = <<0, 1>> /\ medicines[i].quantity = NumberOf(1)

(* C2: the Sale and its stock decrement appear in the same step: no step records a
   Sale without decrementing the sold medicine by the sold quantity, and no step of
   the sale handler changes the catalog without recording its Sale. *)
C2_SaleAndDecrementTogether ==
    [][ /\ (sales' # sales) =>
              /\ sales' = <<Head(sales')>> \o sales
              /\ Len(medicines') = Len(medicines)
              /\ \E i \in 1..Len(medicines) : medicines[i].id = Head(sales').medicineId
              /\ \A i \in 1..Len(medicines) :
                    medicines'[i] =
                        IF medicines[i].id = Head(sales').medicineId
                        THEN [medicines[i] EXCEPT
                                !.quantity = Minus(medicines[i].quantity,
                                                   Head(sales').quantity)]
                        ELSE medicines[i]
        /\ (SubmitStep /\ medicines' # medicines) => Len(sales') = Len(sales) + 1 ]_vars

(* A partial sale: one unit sold out of three, both updates visible *)
C2_Witness ==
    /\ Len(sales) = 1
    /\ Head(sales).quantity = NumberOf(1)
    /\ \E i \in 1..Len(medicines) :
          /\ medicines[i].id = Head(sales).medicineId
          /\ medicines[i].id = <<0, 1>>
          /\ medicines[i].quantity = NumberOf(2)

(* C3: a request for more than the resolved medicine's quantity fails with
   InsufficientStock, creates no Sale and changes no quantity; a request for exactly
   the current quantity (> 0) is accepted and leaves the medicine at 0. *)
C3_InsufficientStock ==
    [][ (SubmitStep /\ Resolved # 0) =>
            LET i == Resolved
                q == parseInt(formData.quantity)
            IN /\ Greater(q, medicines[i].quantity) =>
                     /\ lastAlert' = AlertInsufficient
                     /\ UNCHANGED <<medicines, sales>>
               /\ (q = medicines[i].quantity /\ Greater(q, Zero)) =>
                     /\ lastAlert' = AlertSaleCompleted
                     /\ Len(sales') = Len(sales) + 1
                     /\ medicines'[i].quantity = Zero ]_vars

(* The scenario of the spec: a request of 4 against a stock of 3 was refused *)
C3_Witness ==
    /\ lastAlert = AlertInsufficient
    /\ Resolved # 0
    /\ medicines[Resolved].quantity = NumberOf(3)
    /\ parseInt(formData.quantity) = NumberOf(4)
    /\ sales = <<>>

(* C4: a request with quantity <= 0 against a medicine of the catalog always fails
   with InvalidQuantity, creating no Sale and leaving the catalog unchanged. *)
C4_InvalidQuantity ==
    [][ (SubmitStep /\ Resolved # 0 /\ LessEq(parseInt(formData.quantity), Zero)) =>
            /\ lastAlert' = AlertInvalidQuantity
            /\ UNCHANGED <<medicines, sales>> ]_vars

(* C5: a request whose medicineId matches no medicine fails with NotFound, a failure
   distinct from InsufficientStock and InvalidQuantity, with no Sale created and the
   catalog and the history unchanged; and in every state the checks of the form refuse
   with NotFound every id that no medicine of the catalog has, the empty one, those of
   medicines no longer in the catalog and those never given, whatever the quantity. *)
C5_NotFound ==
    /\ [][ (SubmitStep /\ Resolved = 0) =>
              /\ lastAlert' = AlertSelectMedicine
              /\ lastAlert' \notin {AlertInsufficient, AlertInvalidQuantity,
                                    AlertStoreRejected, AlertSaleCompleted}
              /\ UNCHANGED <<medicines, sales>> ]_vars
    /\ [](\A id \in KnownIds \ IdsOf(medicines), text \in SaleQuantityTexts :
             /\ FindIndex(medicines, id) = 0
             /\ SubmitAlert(medicines, [formData EXCEPT !.medicineId = id,
                                                        !.quantity = text])
                   = AlertSelectMedicine)

(* A form with a quantity but no medicine of the catalog was submitted *)
C5_Witness ==
    /\ lastAlert = AlertSelectMedicine
    /\ formData.quantity = <<49>>
    /\ Resolved = 0
    /\ medicines # <<>>

(* C6: every medicine of the catalog has quantity >= 0 and price >= 0. *)
C6_NonNegative ==
    \A i \in 1..Len(medicines) :
        (isFinite(medicines[i].quantity) /\ isFinite(medicines[i].price)) =>
            (IntOf(medicines[i].quantity) >= 0 /\ Hundredths(medicines[i].price) >= 0)

(* C7: the history is append-only and most-recent-first: a step either leaves it
   unchanged or puts one new Sale at its head, every earlier Sale keeping all its
   fields and its place, whatever happens to the medicine it references. *)
C7_AppendOnly ==
    [][ \/ sales' = sales
        \/ /\ Len(sales') = Len(sales) + 1
           /\ \A k \in 1..Len(sales) : sales'[k + 1] = sales[k]
           /\ lastAlert' = AlertSaleCompleted ]_vars

(* A Sale of one unit of Paracetamol is in the history as it was made, and the
   medicine it references has been edited since: it has another name and price *)
C7_Witness ==
    /\ Len(sales) = 1
    /\ sales[1].medicineId = <<0, 1>>
    /\ sales[1].medicineName = "Paracetamol"
    /\ sales[1].price = NumberOf(10)
    /\ sales[1].quantity = NumberOf(1)
    /\ \E i \in 1..Len(medicines) :
          /\ medicines[i].id = <<0, 1>>
          /\ medicines[i].name # "Paracetamol"
          /\ medicines[i].price # NumberOf(10)

(* C8: every Sale of the history has totalAmount = price * quantity and
   quantity > 0. *)
C8_SaleTotals ==
    \A k \in 1..Len(sales) :
        /\ sales[k].totalAmount = Times(sales[k].price, sales[k].quantity)
        /\ Greater(sales[k].quantity, Zero)

(* C9: no two medicines share an id, no two Sales share an id, and a medicine keeps
   its id while it exists. *)
C9_UniqueIds ==
    /\ [](/\ \A i, j \in 1..Len(medicines) : medicines[i].id = medicines[j].id => i = j
          /\ \A k, l \in 1..Len(sales) : sales[k].id = sales[l].id => k = l)
    /\ [][ Len(medicines') = Len(medicines) =>
              {medicines'[i].id : i \in 1..Len(medicines)} =
                  {medicines[i].id : i \in 1..Len(medicines)} ]_vars

(* C10: getMedicineStatus is "Expired" whenever the expiry instant is before now,
   whatever the quantity; otherwise "Low Stock" iff quantity < 5; otherwise
   "In Stock". *)
C10_StatusPriority ==
    \A i \in 1..Len(medicines) :
        LET m == medicines[i]
            status == getMedicineStatus(m, now)
            expired == m.expiryDate * 86400000 < now
            low == isFinite(m.quantity) /\ IntOf(m.quantity) < 5
        IN /\ status \in {"Expired", "Low Stock", "In Stock"}
           /\ expired => status = "Expired"
           /\ (~expired /\ low) => status = "Low Stock"
           /\ (~expired /\ ~low) => status = "In Stock"
           /\ (~expired /\ m.quantity = NumberOf(4)) => status = "Low Stock"

(* The catalog holds an expired medicine that is also low in stock, and a medicine
   at the threshold quantity 5 that is not expired *)
C10_Witness ==
    /\ \E i \in 1..Len(medicines) :
          medicines[i].expiryDate * 86400000 < now /\ medicines[i].quantity = NumberOf(2)
    /\ \E i \in 1..Len(medicines) :
          medicines[i].expiryDate * 86400000 >= now /\ medicines[i].quantity = NumberOf(5)

(* C11: isNearExpiry(d, t) is true iff 0 < ceil((d - now) / one day) <= t, that is
   iff 0 < d - now <= t days: false for d in the past or exactly now, true for d
   exactly t days ahead, false for d at t + 1 days ahead; and t is 90 when the caller
   gives none, as Charts does for the list it shows.  Time is counted in half days
   here, which the clock of the model and the expiry dates are multiples of. *)
C11_NearExpiry ==
    /\ [](\A i \in 1..Len(medicines), t \in Thresholds :
             LET halfDays == 2 * medicines[i].expiryDate - now \div 43200000
                 near == isNearExpiry(medicines[i].expiryDate, t, now)
             IN /\ now % 43200000 = 0
                /\ near <=> (0 < halfDays /\ halfDays <= 2 * t)
                /\ halfDays <= 0 => ~near
                /\ halfDays = 2 * t => near
                /\ halfDays = 2 * (t + 1) => ~near)
    /\ []((handled = 0 /\ now = StartMs) =>
             \A i \in 1..Len(medicines) :
                 LET halfDays == 2 * medicines[i].expiryDate - now \div 43200000
                     listed == \E k \in 1..Len(nearExpiryProducts) :
                                   nearExpiryProducts[k] = medicines[i]
                 IN listed <=> /\ 0 < halfDays /\ halfDays <= 180
                               /\ Greater(medicines[i].quantity, Zero))
    /\ [][ currentView' # currentView =>
              \A i \in 1..Len(medicines) :
                  LET halfDays == 2 * medicines[i].expiryDate - now' \div 43200000
                      listed == \E k \in 1..Len(nearExpiryProducts') :
                                    nearExpiryProducts'[k] = medicines[i]
                  IN listed <=> /\ currentView' \in {"dashboard", "metrics"}
                                /\ 0 < halfDays /\ halfDays <= 180
                                /\ Greater(medicines[i].quantity, Zero) ]_vars

(* The dashboard shows a catalog with a medicine expiring exactly now, one expiring
   exactly 90 days ahead, which Charts lists, and one in stock expiring 91 days ahead,
   which it does not *)
C11_Witness ==
    /\ currentView = "dashboard"
    /\ \E i \in 1..Len(medicines) : medicines[i].expiryDate * 2 = now \div 43200000
    /\ \E i \in 1..Len(medicines) :
          /\ medicines[i].expiryDate * 2 = now \div 43200000 + 180
          /\ nearExpiryProducts = <<medicines[i]>>
    /\ \E i \in 1..Len(medicines) :
          /\ medicines[i].expiryDate * 2 = now \div 43200000 + 182
          /\ Greater(medicines[i].quantity, Zero)

(* C12: expiredItems is the number of medicines past their expiry date whatever
   their quantity, lowStockItems the number of medicines with quantity < 5 that are
   not expired; an expired medicine with quantity 2 alone gives 1 and 0. *)
C12_MetricCounts ==
    LET m == calculateMetrics(medicines, sales, now)
        expired == {i \in 1..Len(medicines) : medicines[i].expiryDate * 86400000 < now}
        low == {i \in 1..Len(medicines) :
                    isFinite(medicines[i].quantity) /\ IntOf(medicines[i].quantity) < 5}
    IN /\ m.expiredItems = Cardinality(expired)
       /\ m.lowStockItems = Cardinality(low \ expired)
       /\ m.expiredItems + m.lowStockItems <= Len(medicines)
       /\ (Len(medicines) = 1 /\ expired = {1} /\ medicines[1].quantity = NumberOf(2)) =>
             (m.expiredItems = 1 /\ m.lowStockItems = 0)

(* The scenario of the spec: the catalog is one expired medicine of quantity 2 *)
C12_Witness ==
    /\ Len(medicines) = 1
    /\ medicines[1].expiryDate * 86400000 < now
    /\ medicines[1].quantity = NumberOf(2)
    /\ calculateMetrics(medicines, sales, now).expiredItems = 1
    /\ calculateMetrics(medicines, sales, now).lowStockItems = 0

(* A whole number of quarters: such numbers are multiplied and added without rounding *)
Quarters(x) == isFinite(x) /\ x.e >= -2

(* C13: totalInventoryValue is the sum of price * quantity over all medicines,
   expired and out-of-stock ones included, totalSales the sum of totalAmount over the
   whole history, both 0 for empty collections.  The sums are those JavaScript makes
   of the terms in sequence order, starting from 0; they are the sums of the integers
   when every price is a whole number of quarters. *)
C13_MetricTotals ==
    LET m == calculateMetrics(medicines, sales, now)
        value[n \in 0..Len(medicines)] ==
            IF n = 0 THEN Zero
            ELSE Plus(value[n - 1], Times(medicines[n].price, medicines[n].quantity))
        amount[n \in 0..Len(sales)] ==
            IF n = 0 THEN Zero ELSE Plus(amount[n - 1], sales[n].totalAmount)
        cents[n \in 0..Len(medicines)] ==
            IF n = 0 THEN 0
            ELSE cents[n - 1] + Hundredths(medicines[n].price) * IntOf(medicines[n].quantity)
    IN /\ m.totalInventoryValue = value[Len(medicines)]
       /\ m.totalSales = amount[Len(sales)]
       /\ medicines = <<>> => m.totalInventoryValue = Zero
       /\ sales = <<>> => m.totalSales = Zero
       (* 0.1 * 5 + 0.2 * 1 + 0.3 * 2 is 1.2999999999999998 *)
       /\ medicines = roundingMedicines =>
             m.totalInventoryValue = parseFloat(<<49, 46, 50, 57, 57, 57, 57, 57, 57, 57,
                                                  57, 57, 57, 57, 57, 57, 57, 56>>)
       /\ (\A i \in 1..Len(medicines) :
              Quarters(medicines[i].price) /\ isFinite(medicines[i].quantity)) =>
             Hundredths(m.totalInventoryValue) = cents[Len(medicines)]

(* An expired medicine still in stock, a sold-out medicine and a recorded Sale, at
   prices 0.3, 0.2 and 0.1: the value is 0.5 + 0 + 0.6 and the sales are 0.2 *)
C13_Witness ==
    /\ \E i \in 1..Len(medicines) :
          /\ medicines[i].expiryDate * 2 < now \div 43200000
          /\ medicines[i].quantity = NumberOf(2)
          /\ medicines[i].price = parseFloat(<<48, 46, 51>>)
    /\ \E i \in 1..Len(medicines) :
          medicines[i].quantity = Zero /\ medicines[i].price = parseFloat(<<48, 46, 50>>)
    /\ Len(medicines) = 3
    /\ Len(sales) = 1
    /\ calculateMetrics(medicines, sales, now).totalInventoryValue
          = parseFloat(<<49, 46, 49>>)
    /\ calculateMetrics(medicines, sales, now).totalSales = parseFloat(<<48, 46, 50>>)

(* C14: at a fixed reference time calculateMetrics returns the same metrics for every
   reordering of the catalog and of the history. *)
C14_OrderIndependent ==
    \A meds \in Reorderings(medicines), history \in Reorderings(sales) :
        calculateMetrics(meds, history, now) = calculateMetrics(medicines, sales, now)

(* C15: a step that only has the displayed list of InventoryTable computed anew (the
   view, the search term, the sort field or the sort direction changes) leaves the
   catalog sequence as it was. *)
C15_DisplayIsPure ==
    [][ ( \/ currentView' # currentView
          \/ searchTerm' # searchTerm
          \/ sortField' # sortField
          \/ sortDirection' # sortDirection ) => medicines' = medicines ]_vars

(* C16: a step that deletes removes every entry with one id of the catalog and nothing
   else, keeps the others in their order, and leaves the sales history as it was,
   whether or not Sales reference the deleted medicine. *)
C16_DeleteUnconditional ==
    [][ Len(medicines') < Len(medicines) =>
          /\ \E i \in 1..Len(medicines) :
                medicines' = SelectSeq(medicines, LAMBDA med : med.id # medicines[i].id)
          /\ sales' = sales ]_vars

(* The medicine data the inventory forms of the model stand for *)
SubmittedData ==
    { [name |-> "Brufen", supplier |-> "Gamma", category |-> "Fever",
       price |-> Scaled(5, -1), quantity |-> NumberOf(5), expiryDate |-> 2, plu |-> "P3"],
      [name |-> "Zinc", supplier |-> "Beta", category |-> "Mineral",
       price |-> Scaled(-3, -1), quantity |-> NumberOf(-2), expiryDate |-> 3,
       plu |-> "P4"],
      [name |-> "Calpol", supplier |-> "Acme", category |-> "Pain",
       price |-> Scaled(-5, -1), quantity |-> NumberOf(5), expiryDate |-> 4,
       plu |-> "P5"] }

(* A step of the inventory form that changes the catalog without changing its length *)
EditStep ==
    /\ handled' # handled
    /\ lastAlert' = NoAlert
    /\ UNCHANGED <<currentView, searchTerm, sortField, sortDirection>>
    /\ Len(medicines') = Len(medicines)
    /\ medicines' # medicines

(* C17: an edit replaces, for one id of the catalog, every field except id of the
   entries with that id by the submitted data, at their positions, and leaves every
   other entry and the sales history as they were; so an edit for an id that no
   medicine has changes nothing. *)
C17_UpdateInPlace ==
    [][ EditStep =>
          /\ sales' = sales
          /\ \E k \in 1..Len(medicines), data \in SubmittedData :
                \A i \in 1..Len(medicines) :
                    medicines'[i] =
                        IF medicines[i].id = medicines[k].id
                        THEN [id |-> medicines[i].id, name |-> data.name,
                              supplier |-> data.supplier, category |-> data.category,
                              price |-> data.price, quantity |-> data.quantity,
                              expiryDate |-> data.expiryDate, plu |-> data.plu]
                        ELSE medicines[i] ]_vars

(* C18: a completed sale leaves the catalog's length and order, every medicine with
   another id, and every field other than quantity of the sold medicine as they were. *)
C18_SaleChangesOnlyQuantity ==
    [][ (handled' # handled /\ lastAlert' = AlertSaleCompleted) =>
          /\ Len(medicines') = Len(medicines)
          /\ \A i \in 1..Len(medicines) :
                /\ medicines[i].id # Head(sales').medicineId => medicines'[i] = medicines[i]
                /\ [medicines'[i] EXCEPT !.quantity = medicines[i].quantity] = medicines[i]
          /\ \E i \in 1..Len(medicines) : medicines'[i].quantity # medicines[i].quantity ]_vars

(* The whole stock of the first shipped medicine has been sold: it differs from the
   shipped entry in quantity only, and the other medicine is as it was shipped *)
C18_Witness ==
    /\ lastAlert = AlertSaleCompleted
    /\ Len(medicines) = 2
    /\ \E i, j \in 1..Len(medicines) :
          /\ medicines[i] = [id |-> <<0, 1>>, name |-> "Paracetamol", supplier |-> "Acme",
                             category |-> "Pain", price |-> NumberOf(10),
                             quantity |-> Zero, expiryDate |-> 4, plu |-> "P1"]
          /\ medicines[j].id = <<0, 2>> /\ medicines[j].quantity = NumberOf(2)
          /\ medicines[j].name = "Amoxil"

(* C19: a submission of the sale form that passes the form's three checks is accepted
   by the store: it never ends with the store's rejection, and it records a Sale. *)
C19_FormImpliesStore ==
    [][ SubmitStep =>
          /\ lastAlert' # AlertStoreRejected
          /\ lastAlert' \notin {AlertSelectMedicine, AlertInsufficient, AlertInvalidQuantity}
                => /\ lastAlert' = AlertSaleCompleted
                   /\ Len(sales') = Len(sales) + 1 ]_vars

(* The form has passed a request for the whole stock of a medicine, the case where the
   form's check (quantity <= stock) and the store's (stock >= quantity) meet *)
C19_Witness ==
    /\ lastAlert = AlertSaleCompleted
    /\ formData = EmptySaleForm
    /\ Head(sales).quantity = NumberOf(3)
    /\ \E i \in 1..Len(medicines) :
          medicines[i].id = Head(sales).medicineId /\ medicines[i].quantity = Zero

(* C20: every Sale committed through the sale form is for a medicine that, when
   handleSubmit runs, is not expired and has quantity > 0. *)
C20_SoldWhileAvailable ==
    [][ (SubmitStep /\ lastAlert' = AlertSaleCompleted) =>
          /\ Resolved # 0
          /\ medicines[Resolved].expiryDate * 86400000 >= now
          /\ Greater(medicines[Resolved].quantity, Zero) ]_vars

(* A Sale recorded after the clock advanced, for a medicine whose expiry date is the
   instant the application started *)
SoldAfterExpiry ==
    /\ sales # <<>>
    /\ Head(sales).dateTime > 172800000
    /\ \E i \in 1..Len(medicines) :
          /\ medicines[i].id = Head(sales).medicineId
          /\ medicines[i].name = "Brufen"
          /\ medicines[i].expiryDate = 2

(* The quantity sold under an id according to a history *)
RECURSIVE Sold(_, _)
Sold(history, id) ==
    IF history = <<>> THEN 0
    ELSE (IF Head(history).medicineId = id THEN IntOf(Head(history).quantity) ELSE 0)
            + Sold(Tail(history), id)

(* C21: with quantities that are numbers, a medicine enters the catalog with nothing
   sold under its id, and while it is neither edited nor deleted every step keeps its
   quantity plus the quantity sold under its id, so that this sum stays the quantity
   it entered with; and the totalSales metric never decreases. *)
C21_StockConservation ==
    [][ (Finite(medicines, sales) /\ Finite(medicines', sales')) =>
        /\ \A id \in IdsOf(medicines') :
              LET before == {i \in 1..Len(medicines) : medicines[i].id = id}
                  after == {i \in 1..Len(medicines') : medicines'[i].id = id}
                  inventoryStep == handled' # handled /\ lastAlert' = NoAlert
              IN /\ before = {} => Sold(sales', id) = 0
                 /\ ( /\ Cardinality(before) = 1
                      /\ Cardinality(after) = 1
                      /\ ~inventoryStep ) =>
                        IntOf(medicines'[CHOOSE i \in after : TRUE].quantity)
                              + Sold(sales', id)
                            = IntOf(medicines[CHOOSE i \in before : TRUE].quantity)
                              + Sold(sales, id)
        /\ Hundredths(metrics'.totalSales) >= Hundredths(metrics.totalSales) ]_vars

====
